---- MODULE Spec2Model ----
\* Model of uguid's GUID text parser (src/uguid/src/guid_parse.rs):
\* try_parse_guid and the hex decoders it is built from.
\*
\* Input strings are sequences of u8 values; source index i (0-based) is
\* element i + 1 of the sequence.  Result<T, GuidFromStrError> is a record
\* [tag |-> "Ok", val |-> v] or [tag |-> "Err"].  An index past the end of the
\* slice is a Rust panic and is modelled as the outcome "Panic".
EXTENDS Integers, Sequences, FiniteSets, TLC

VARIABLES
    s,        \* the input bytes (s.as_bytes())
    pc,       \* position in try_parse_guid
    reads,    \* source indices of s read so far, in order
    fields,   \* bytes decoded so far, in evaluation order of the struct literal
    args,     \* arguments of the latest parse_byte_from_ascii_char_pair call
    ret,      \* its return value
    result    \* return value of try_parse_guid

vars == <<s, pc, reads, fields, args, ret, result>>

----------------------------------------------------------------------------
\* Values

U8_MAX == 255
Byte == 0..U8_MAX
U8_MODULUS == U8_MAX + 1

None == [tag |-> "None"]
Err == [tag |-> "Err"]
Panic == [tag |-> "Panic"]
Ok(v) == [tag |-> "Ok", val |-> v]

At(str, i) == str[i + 1]

----------------------------------------------------------------------------
\* Hex decoders

parse_byte_from_ascii_char_B_typo(c) ==
    CASE c = 48 -> Ok(0)
      [] c = 49 -> Ok(1)
      [] c = 50 -> Ok(2)
      [] c = 51 -> Ok(3)
      [] c = 52 -> Ok(4)
      [] c = 53 -> Ok(5)
      [] c = 54 -> Ok(6)
      [] c = 55 -> Ok(7)
      [] c = 56 -> Ok(8)
      [] c = 57 -> Ok(9)
      [] c \in {97, 65, 66} -> Ok(10)
      [] c \in {98} -> Ok(11)
      [] c \in {99, 67} -> Ok(12)
      [] c \in {100, 68} -> Ok(13)
      [] c \in {101, 69} -> Ok(14)
      [] c \in {102, 70} -> Ok(15)
      [] OTHER -> Err

parse_byte_from_ascii_char_no_upper_F(c) ==
    CASE c = 48 -> Ok(0)
      [] c = 49 -> Ok(1)
      [] c = 50 -> Ok(2)
      [] c = 51 -> Ok(3)
      [] c = 52 -> Ok(4)
      [] c = 53 -> Ok(5)
      [] c = 54 -> Ok(6)
      [] c = 55 -> Ok(7)
      [] c = 56 -> Ok(8)
      [] c = 57 -> Ok(9)
      [] c \in {97, 65} -> Ok(10)
      [] c \in {98, 66} -> Ok(11)
      [] c \in {99, 67} -> Ok(12)
      [] c \in {100, 68} -> Ok(13)
      [] c \in {101, 69} -> Ok(14)
      [] c \in {102} -> Ok(15)
      [] OTHER -> Err

\* match c { b'0' => Ok(0x0), ..., b'a' | b'A' => Ok(0xa), ..., _ => Err }
parse_byte_from_ascii_char(c) ==
    CASE c = 48 -> Ok(0)
      [] c = 49 -> Ok(1)
      [] c = 50 -> Ok(2)
      [] c = 51 -> Ok(3)
      [] c = 52 -> Ok(4)
      [] c = 53 -> Ok(5)
      [] c = 54 -> Ok(6)
      [] c = 55 -> Ok(7)
      [] c = 56 -> Ok(8)
      [] c = 57 -> Ok(9)
      [] c \in {97, 65} -> Ok(10)
      [] c \in {98, 66} -> Ok(11)
      [] c \in {99, 67} -> Ok(12)
      [] c \in {100, 68} -> Ok(13)
      [] c \in {101, 69} -> Ok(14)
      [] c \in {102, 70} -> Ok(15)
      [] OTHER -> Err

\* u8 << n: the bits shifted past bit 7 are lost
RECURSIVE Shl(_, _)
Shl(a, n) == IF n = 0 THEN a ELSE Shl((a * 2) % U8_MODULUS, n - 1)

\* u8 | u8, bit by bit
RECURSIVE BitOr(_, _)
BitOr(a, b) ==
    IF a = 0 THEN b
    ELSE IF b = 0 THEN a
    ELSE (IF a % 2 = 1 \/ b % 2 = 1 THEN 1 ELSE 0) + 2 * BitOr(a \div 2, b \div 2)

parse_byte_from_ascii_char_pair_shift3(a, b) ==
    LET ra == parse_byte_from_ascii_char(a) IN
    IF ra.tag = "Err" THEN Err
    ELSE LET rb == parse_byte_from_ascii_char(b) IN
         IF rb.tag = "Err" THEN Err
         ELSE Ok(BitOr(Shl(ra.val, 3), rb.val))

parse_byte_from_ascii_char_pair_low_unchecked(a, b) ==
    LET ra == parse_byte_from_ascii_char(a) IN
    IF ra.tag = "Err" THEN Err
    ELSE LET rb == parse_byte_from_ascii_char(b) IN
         Ok(BitOr(Shl(ra.val, 4), IF rb.tag = "Err" THEN 0 ELSE rb.val))

\* let a = mtry!(..a..); let b = mtry!(..b..); Ok(a << 4 | b)
parse_byte_from_ascii_char_pair(a, b) ==
    LET ra == parse_byte_from_ascii_char(a) IN
    IF ra.tag = "Err" THEN Err
    ELSE LET rb == parse_byte_from_ascii_char(b) IN
         IF rb.tag = "Err" THEN Err
         ELSE Ok(BitOr(Shl(ra.val, 4), rb.val))

\* parse_byte_from_ascii_char_pair(s[start], s[start + 1]); both bytes are
\* indexed before the call, and an index past the end panics.
parse_byte_from_ascii_str_at(str, start) ==
    IF start + 1 >= Len(str) THEN Panic
    ELSE parse_byte_from_ascii_char_pair(At(str, start), At(str, start + 1))

----------------------------------------------------------------------------
\* try_parse_guid, one step per check

SEP == 45

SEP_INDICES == <<8, 13, 18, 23>>

PAIR_OFFSETS_time_low_unreversed ==
    <<0, 2, 4, 6, 11, 9, 16, 14, 19, 21, 24, 26, 28, 30, 32, 34>>

PAIR_OFFSETS_repeated_offset ==
    <<6, 4, 2, 0, 11, 9, 16, 14, 19, 21, 24, 26, 28, 30, 32, 32>>

\* the start argument of each mtry!(parse_byte_from_ascii_str_at(s, start)),
\* in the order the struct literal evaluates them
PAIR_OFFSETS ==
    <<6, 4, 2, 0, 11, 9, 16, 14, 19, 21, 24, 26, 28, 30, 32, 34>>

Guid_clock_seq_swapped(b) ==
    [time_low |-> SubSeq(b, 1, 4),
     time_mid |-> SubSeq(b, 5, 6),
     time_high_and_version |-> SubSeq(b, 7, 8),
     clock_seq_high_and_reserved |-> b[10],
     clock_seq_low |-> b[9],
     node |-> SubSeq(b, 11, 16)]

\* Guid { time_low: [..4], time_mid: [..2], time_high_and_version: [..2],
\*        clock_seq_high_and_reserved, clock_seq_low, node: [..6] }
Guid(b) ==
    [time_low |-> SubSeq(b, 1, 4),
     time_mid |-> SubSeq(b, 5, 6),
     time_high_and_version |-> SubSeq(b, 7, 8),
     clock_seq_high_and_reserved |-> b[9],
     clock_seq_low |-> b[10],
     node |-> SubSeq(b, 11, 16)]

\* The frame of one call: the values of the variables.
Frame(str) ==
    [s |-> str, pc |-> "length_check", reads |-> <<>>, fields |-> <<>>,
     args |-> <<>>, ret |-> None, result |-> None]

Return(f, r) == [f EXCEPT !.pc = "done", !.result = r]

Abort(f, rd) == [f EXCEPT !.pc = "panic", !.reads = f.reads \o rd]

length_check_rejects_longer_only(f) ==
    IF Len(f.s) > 36 THEN Return(f, Err)
    ELSE [f EXCEPT !.pc = "separator_check"]

length_check_accepts_longer(f) ==
    IF Len(f.s) < 36 THEN Return(f, Err)
    ELSE [f EXCEPT !.pc = "separator_check"]

\* if s.len() != 36 { return Err(GuidFromStrError); }
length_check(f) ==
    IF Len(f.s) # 36 THEN Return(f, Err)
    ELSE [f EXCEPT !.pc = "separator_check"]

\* The indices a short-circuiting chain s[i1] != sep || s[i2] != sep || ...
\* reads: it stops at the first operand that is true (or that panics).
RECURSIVE OrChainReads(_, _)
OrChainReads(str, idxs) ==
    IF idxs = <<>> THEN <<>>
    ELSE IF Head(idxs) >= Len(str) \/ At(str, Head(idxs)) # SEP
         THEN <<Head(idxs)>>
         ELSE <<Head(idxs)>> \o OrChainReads(str, Tail(idxs))

separator_check_misses_last(f) ==
    LET rd == OrChainReads(f.s, SubSeq(SEP_INDICES, 1, 3))
        last == rd[Len(rd)]
    IN  IF last >= Len(f.s) THEN Abort(f, rd)
        ELSE IF At(f.s, last) # SEP
             THEN Return([f EXCEPT !.reads = f.reads \o rd], Err)
             ELSE [f EXCEPT !.reads = f.reads \o rd, !.pc = "decode"]

\* if s[8] != sep || s[13] != sep || s[18] != sep || s[23] != sep { return Err }
separator_check(f) ==
    LET rd == OrChainReads(f.s, SEP_INDICES)
        last == rd[Len(rd)]
    IN  IF last >= Len(f.s) THEN Abort(f, rd)
        ELSE IF At(f.s, last) # SEP
             THEN Return([f EXCEPT !.reads = f.reads \o rd], Err)
             ELSE [f EXCEPT !.reads = f.reads \o rd, !.pc = "decode"]

\* One mtry!(parse_byte_from_ascii_str_at(s, start)): the next element of the
\* struct literal.  An Err returns from try_parse_guid at once.
decode_pair(f) ==
    LET start == PAIR_OFFSETS[Len(f.fields) + 1]
        r == parse_byte_from_ascii_str_at(f.s, start)
    IN  IF r.tag = "Panic"
        THEN Abort(f, IF start >= Len(f.s) THEN <<start>> ELSE <<start, start + 1>>)
        ELSE LET g == [f EXCEPT !.reads = f.reads \o <<start, start + 1>>,
                                !.args = <<At(f.s, start), At(f.s, start + 1)>>,
                                !.ret = r]
             IN  IF r.tag = "Err" THEN Return(g, Err)
                 ELSE [g EXCEPT !.fields = Append(f.fields, r.val)]

\* Ok(Guid { ... }) once every element has been decoded
build_guid(f) == Return(f, Ok(Guid(f.fields)))

step(f) ==
    CASE f.pc = "length_check" -> length_check(f)
      [] f.pc = "separator_check" -> separator_check(f)
      [] f.pc = "decode" /\ Len(f.fields) < Len(PAIR_OFFSETS) -> decode_pair(f)
      [] f.pc = "decode" /\ Len(f.fields) = Len(PAIR_OFFSETS) -> build_guid(f)
      [] OTHER -> f

RECURSIVE run(_)
run(f) == IF f.pc \in {"done", "panic"} THEN f ELSE run(step(f))

\* the call as a whole: its return value
try_parse_guid(str) == run(Frame(str)).result

----------------------------------------------------------------------------
\* Text helpers outside guid_parse.rs

\* u8::to_ascii_uppercase / u8::to_ascii_lowercase, byte by byte
to_ascii_uppercase(str) ==
    [i \in 1..Len(str) |-> IF str[i] \in 97..122 THEN str[i] - 32 ELSE str[i]]

to_ascii_lowercase(str) ==
    [i \in 1..Len(str) |-> IF str[i] \in 65..90 THEN str[i] + 32 ELSE str[i]]

\* a string with upper-case letters at the even source indices only
mixed_case(str) ==
    [i \in 1..Len(str) |->
        IF i % 2 = 1 /\ str[i] \in 97..122 THEN str[i] - 32 ELSE str[i]]

\* one byte as two lower-case hex digits
hex_lower(n) == IF n < 10 THEN 48 + n ELSE 87 + n

byte_to_hex(b) == <<hex_lower(b \div 16), hex_lower(b % 16)>>

RECURSIVE bytes_to_hex(_)
bytes_to_hex(bs) ==
    IF bs = <<>> THEN <<>> ELSE byte_to_hex(Head(bs)) \o bytes_to_hex(Tail(bs))

Reverse(q) == [i \in 1..Len(q) |-> q[Len(q) + 1 - i]]

\* The canonical text of a Guid: lower-case hex, 8-4-4-4-12, the first three
\* fields written in reversed byte order, the rest in stored order.
to_canonical(g) ==
    bytes_to_hex(Reverse(g.time_low)) \o <<SEP>>
    \o bytes_to_hex(Reverse(g.time_mid)) \o <<SEP>>
    \o bytes_to_hex(Reverse(g.time_high_and_version)) \o <<SEP>>
    \o bytes_to_hex(<<g.clock_seq_high_and_reserved, g.clock_seq_low>>) \o <<SEP>>
    \o bytes_to_hex(g.node)

----------------------------------------------------------------------------
\* Inputs

MaxExtra == 1

\* Guid values the inputs are written from: all zero, all 0xFF, the value of
\* 01234567-89ab-cdef-0123-456789abcdef, and one using every hex digit in
\* both nibbles
SampleGuids ==
    { Guid([i \in 1..16 |-> 0]),
      Guid([i \in 1..16 |-> U8_MAX]),
      Guid(<<103, 69, 35, 1, 171, 137, 239, 205, 1, 35, 69, 103, 137, 171, 205, 239>>),
      Guid(<<16, 50, 84, 118, 152, 186, 220, 254, 15, 30, 45, 60, 75, 90, 105, 120>>) }

\* each sample value with its canonical text
CanonicalSamples == { <<to_canonical(g), g>> : g \in SampleGuids }

\* well-formed texts: lower case, upper case and mixed case
WellFormedInputs ==
    UNION { {to_canonical(g), to_ascii_uppercase(to_canonical(g)),
             mixed_case(to_canonical(g))} : g \in SampleGuids }

\* bytes put in place of a byte of a well-formed text:
\* NUL, space, '-', '/', '0', '9', ':', '@', 'A', 'F', 'G', '_', '`', 'a',
\* 'f', 'g', 0x7F, 0x80, 0xC3, 0xFF
SampleBytes ==
    {0, 32, 45, 47, 48, 57, 58, 64, 65, 70, 71, 95, 96, 97, 102, 103,
     127, 128, 195, 255}

OneByteChanged ==
    { [w EXCEPT ![i] = b] : w \in WellFormedInputs, i \in 1..36, b \in SampleBytes }

\* two bytes changed, to '_' or 'g'
TwoBytesChanged ==
    LET w == to_canonical(CHOOSE g \in SampleGuids : g.time_low = <<103, 69, 35, 1>>)
    IN  { [w EXCEPT ![i] = b, ![j] = c] :
            i \in 1..36, j \in 1..36, b \in {95, 103}, c \in {95, 103} }

Truncated ==
    { SubSeq(w, 1, n) : w \in WellFormedInputs, n \in 0..35 }

RECURSIVE Tails(_)
Tails(n) ==
    IF n = 0 THEN {<<>>}
    ELSE Tails(n - 1) \cup { Append(q, b) : q \in { x \in Tails(n - 1) : Len(x) = n - 1 },
                                            b \in SampleBytes }

Extended ==
    { w \o q : w \in WellFormedInputs, q \in Tails(MaxExtra) }

Inputs == OneByteChanged \cup TwoBytesChanged \cup Truncated \cup Extended

----------------------------------------------------------------------------
\* A call of try_parse_guid

Init ==
    /\ s \in Inputs
    /\ pc = "length_check"
    /\ reads = <<>>
    /\ fields = <<>>
    /\ args = <<>>
    /\ ret = None
    /\ result = None

cur ==
    [s |-> s, pc |-> pc, reads |-> reads, fields |-> fields,
     args |-> args, ret |-> ret, result |-> result]

Becomes(f) ==
    /\ s' = f.s
    /\ pc' = f.pc
    /\ reads' = f.reads
    /\ fields' = f.fields
    /\ args' = f.args
    /\ ret' = f.ret
    /\ result' = f.result

LengthCheck == pc = "length_check" /\ Becomes(length_check(cur))

SeparatorCheck == pc = "separator_check" /\ Becomes(separator_check(cur))

DecodePair ==
    /\ pc = "decode"
    /\ Len(fields) < Len(PAIR_OFFSETS)
    /\ Becomes(decode_pair(cur))

BuildGuid ==
    /\ pc = "decode"
    /\ Len(fields) = Len(PAIR_OFFSETS)
    /\ Becomes(build_guid(cur))

Next == LengthCheck \/ SeparatorCheck \/ DecodePair \/ BuildGuid

Spec == Init /\ [][Next]_vars

----------------------------------------------------------------------------
\* A call of parse_byte_from_ascii_char_pair on its own, on any two bytes

InitPair ==
    /\ s = <<>>
    /\ pc = "pair"
    /\ reads = <<>>
    /\ fields = <<>>
    /\ args \in Byte \X Byte
    /\ ret = None
    /\ result = None

PairCall ==
    /\ pc = "pair"
    /\ ret' = parse_byte_from_ascii_char_pair(args[1], args[2])
    /\ pc' = "done"
    /\ UNCHANGED <<s, reads, fields, args, result>>

NextPair == PairCall

SpecPair == InitPair /\ [][NextPair]_vars

----------------------------------------------------------------------------
\* Reference notions the properties are stated with

IsHexDigit(c) == c \in (48..57) \cup (97..102) \cup (65..70)

HexValue(c) ==
    IF c \in 48..57 THEN c - 48 ELSE IF c \in 97..102 THEN c - 87 ELSE c - 55

\* the hex-pair decode of the input bytes at source indices k and k + 1
HexPairAt(k) == 16 * HexValue(At(s, k)) + HexValue(At(s, k + 1))

HyphenIndices == {8, 13, 18, 23}

HexIndices == (0..35) \ HyphenIndices

WellFormed(str) ==
    /\ Len(str) = 36
    /\ \A i \in HyphenIndices : At(str, i) = 45
    /\ \A i \in HexIndices : IsHexDigit(At(str, i))

Succeeded == pc = "done" /\ result.tag = "Ok"

Failed == pc = "done" /\ result = Err

\* every index read of a complete successful call, in order
ReadOrder ==
    <<8, 13, 18, 23,
      6, 7, 4, 5, 2, 3, 0, 1,
      11, 12, 9, 10,
      16, 17, 14, 15,
      19, 20, 21, 22,
      24, 25, 26, 27, 28, 29, 30, 31, 32, 33, 34, 35>>

\* the i-th read found a byte that fails its step
ReadFails(i) ==
    IF i <= 4 THEN At(s, reads[i]) # 45 ELSE ~IsHexDigit(At(s, reads[i]))

\* the position in reads at which the step of the i-th read ends
StepEnd(i) == IF i <= 4 THEN i ELSE IF i % 2 = 1 THEN i + 1 ELSE i

----------------------------------------------------------------------------
\* Properties

\* C1: on success every field byte is the hex-pair decode of the two input
\* bytes at its offset: time_low from 6,4,2,0; time_mid from 11,9;
\* time_high_and_version from 16,14; clock_seq_high_and_reserved from 19;
\* clock_seq_low from 21; node from 24,26,28,30,32,34.
C1_FieldMapping ==
    Succeeded =>
        /\ result.val.time_low =
               <<HexPairAt(6), HexPairAt(4), HexPairAt(2), HexPairAt(0)>>
        /\ result.val.time_mid = <<HexPairAt(11), HexPairAt(9)>>
        /\ result.val.time_high_and_version = <<HexPairAt(16), HexPairAt(14)>>
        /\ result.val.clock_seq_high_and_reserved = HexPairAt(19)
        /\ result.val.clock_seq_low = HexPairAt(21)
        /\ result.val.node =
               <<HexPairAt(24), HexPairAt(26), HexPairAt(28),
                 HexPairAt(30), HexPairAt(32), HexPairAt(34)>>

\* 01234567-89AB-CDEF-0123-456789ABCDEF in upper case has been parsed
C1_Witness ==
    /\ Succeeded
    /\ At(s, 11) = 65
    /\ result.val.time_low = <<103, 69, 35, 1>>
    /\ result.val.time_mid = <<171, 137>>
    /\ result.val.node = <<69, 103, 137, 171, 205, 239>>

\* C2: an input whose length is not 36 is rejected with GuidFromStrError,
\* whatever its bytes are.
C2_WrongLengthFails ==
    (pc = "done" /\ Len(s) # 36) => result = Err

\* a well-formed text followed by one more hex digit has been rejected
C2_Witness ==
    /\ Failed
    /\ Len(s) = 37
    /\ WellFormed(SubSeq(s, 1, 36))
    /\ IsHexDigit(At(s, 36))

\* C3: a 36-byte input with a byte other than '-' at index 8, 13, 18 or 23
\* is rejected, also when that byte is a hex digit and the rest is valid.
C3_BadSeparatorFails ==
    (pc = "done" /\ Len(s) = 36 /\ \E i \in HyphenIndices : At(s, i) # 45)
        => result = Err

\* a text that is valid except for the hex digit '0' at index 23 was rejected
C3_Witness ==
    /\ Failed
    /\ Len(s) = 36
    /\ At(s, 23) = 48
    /\ WellFormed([s EXCEPT ![24] = 45])

\* C4: a 36-byte input with the four hyphens in place and a non-hex byte at
\* any of the other 32 indices is rejected and no Guid is returned.
C4_NonHexFails ==
    (/\ pc = "done"
     /\ Len(s) = 36
     /\ \A i \in HyphenIndices : At(s, i) = 45
     /\ \E i \in HexIndices : ~IsHexDigit(At(s, i)))
        => result = Err /\ result.tag # "Ok"

\* a text that is valid except for the byte 0xC3 at the last index (the low
\* digit of the pair decoded last) was rejected
C4_Witness ==
    /\ Failed
    /\ Len(s) = 36
    /\ At(s, 35) = 195
    /\ WellFormed([s EXCEPT ![36] = 48])

\* C5: the call succeeds exactly on the inputs of the right shape (length 36,
\* '-' at 8, 13, 18, 23, hex digits elsewhere), whatever the field values
\* are; a call on such an input never panics and, until it returns, is at a
\* step that can be taken; and each sample Guid value is the result of its
\* canonical text.
C5_SuccessIffWellFormed ==
    /\ pc = "done" => (result.tag = "Ok" <=> WellFormed(s))
    /\ WellFormed(s) => pc # "panic"
    /\ (WellFormed(s) /\ pc # "done") =>
           \/ pc \in {"length_check", "separator_check"}
           \/ pc = "decode" /\ Len(fields) <= Len(PAIR_OFFSETS)
    /\ pc = "done" =>
           \A p \in CanonicalSamples : s = p[1] => result = Ok(p[2])

\* FFFFFFFF-FFFF-FFFF-FFFF-FFFFFFFFFFFF has been parsed to sixteen 0xFF bytes
C5_Witness ==
    /\ Succeeded
    /\ At(s, 0) = 70
    /\ result.val = Guid([i \in 1..16 |-> 255])

\* C6: for an input on which the call succeeds, the calls on its upper-case
\* and its lower-case form succeed with the same Guid.
C6_CaseInsensitive ==
    Succeeded =>
        /\ try_parse_guid(to_ascii_uppercase(s)) = result
        /\ try_parse_guid(to_ascii_lowercase(s)) = result

\* a mixed-case input has been parsed
C6_Witness ==
    /\ Succeeded
    /\ s # to_ascii_uppercase(s)
    /\ s # to_ascii_lowercase(s)

\* C7: for an input on which the call succeeds, the canonical text of the
\* returned Guid is the input in lower case.
C7_RoundTrip ==
    Succeeded => to_canonical(result.val) = to_ascii_lowercase(s)

\* an input with upper-case digits and sixteen different field bytes has
\* been parsed
C7_Witness ==
    /\ Succeeded
    /\ s # to_ascii_lowercase(s)
    /\ Cardinality({fields[i] : i \in 1..Len(fields)}) = 16

\* C8: parse_byte_from_ascii_char_pair(hi, lo) is Ok(16 * hexval(hi) +
\* hexval(lo)), a value in 0..255, when both bytes are hex digits, and
\* GuidFromStrError otherwise.
C8_PairDecode ==
    ret.tag # "None" =>
        IF IsHexDigit(args[1]) /\ IsHexDigit(args[2])
        THEN /\ ret = Ok(16 * HexValue(args[1]) + HexValue(args[2]))
             /\ ret.val \in Byte
        ELSE ret = Err

\* the pair ('F', 'f') has been decoded to 0xFF
C8_Witness ==
    /\ pc = "done"
    /\ args = <<70, 102>>
    /\ ret = Ok(255)

\* C9 as stated: a successful call has decoded twelve byte-pairs.
C9_TwelveDecodes ==
    Succeeded => Len(fields) = 12

\* C9, amended: after the length check and the hyphen check pass, a
\* successful call has decoded sixteen byte-pairs (thirty-two index reads
\* after the four hyphen reads), and the returned record is those sixteen
\* bytes in decoding order.
C9_SixteenDecodes ==
    Succeeded =>
        /\ Len(fields) = 16
        /\ Len(reads) = 4 + 2 * 16
        /\ result.val.time_low \o result.val.time_mid
             \o result.val.time_high_and_version
             \o <<result.val.clock_seq_high_and_reserved, result.val.clock_seq_low>>
             \o result.val.node = fields

\* a call has succeeded on a text whose two clock_seq bytes differ
C9_Witness ==
    /\ Succeeded
    /\ Len(fields) = 16
    /\ fields[9] # fields[10]

\* C10: the input is indexed only once its length is known to be 36, and
\* only at 0..35; the reads are the hyphen reads 8, 13, 18, 23 and then the
\* pair reads in decoding order; no call panics; and a read that finds a
\* failing byte ends the call with the error before any later step reads.
C10_ReadsInOrder ==
    /\ pc # "panic"
    /\ pc \in {"length_check", "separator_check"} => reads = <<>>
    /\ reads # <<>> => Len(s) = 36
    /\ \A i \in 1..Len(reads) : reads[i] \in 0..35
    /\ Len(reads) <= Len(ReadOrder)
    /\ reads = SubSeq(ReadOrder, 1, Len(reads))
    /\ pc = "decode" => Len(reads) = 4 + 2 * Len(fields)
    /\ \A i \in 1..Len(reads) :
           ReadFails(i) => Failed /\ Len(reads) = StepEnd(i)
    /\ (Failed /\ Len(s) = 36) => \E i \in 1..Len(reads) : ReadFails(i)

\* a text with '_' at index 13 and 'g' at index 6 was rejected after the
\* reads of indices 8 and 13 only
C10_Witness ==
    /\ Failed
    /\ Len(s) = 36
    /\ At(s, 13) = 95
    /\ At(s, 6) = 103
    /\ reads = <<8, 13>>

====
